---- MODULE Spec2Model ----
(***************************************************************************)
(* A model of utils/utils.py of save-the-data: the page fetch set_up_soup  *)
(* (with find_element) and the bulk download download_files.               *)
(*                                                                         *)
(* Strings (hrefs, URLs, paths) are sequences of one-character strings, so *)
(* that suffix tests, basenames, joins and the extension pattern are       *)
(* computed character by character as the Python code computes them.       *)
(***************************************************************************)
EXTENDS Integers, Sequences, FiniteSets, TLC

\* ------------------------------------------------------------------ bounds

\* The longest anchor list of a page.
MaxAnchors == 2

\* ----------------------------------------------------------------- strings

Max(S) == CHOOSE x \in S : \A y \in S : y <= x
Min(S) == CHOOSE x \in S : \A y \in S : x <= y

\* str.endswith(suffix) for one suffix.
EndsWith(s, suf) ==
    /\ Len(s) >= Len(suf)
    /\ SubSeq(s, Len(s) - Len(suf) + 1, Len(s)) = suf

StartsWith(s, pre) ==
    /\ Len(s) >= Len(pre)
    /\ SubSeq(s, 1, Len(pre)) = pre

\* str.endswith(tuple): some suffix of the tuple matches, case-sensitively.
endswith(s, sufs) == \E k \in DOMAIN sufs : EndsWith(s, sufs[k])

\* The position of the last c in s, 0 when there is none (str.rfind + 1).
rfind(s, c) == Max({0} \cup {k \in DOMAIN s : s[k] = c})

\* The first position >= from of a character of cs in s, Len(s) + 1 when none.
FindFirst(s, cs, from) ==
    Min({Len(s) + 1} \cup {k \in DOMAIN s : k >= from /\ s[k] \in cs})

\* A basename that drops the query string and the fragment first.
basename_of_path(p) ==
    LET path == SubSeq(p, 1, FindFirst(p, {"?", "#"}, 1) - 1)
    IN  SubSeq(path, rfind(path, "/") + 1, Len(path))

\* os.path.basename: everything after the last "/" of the raw string.
basename(p) == SubSeq(p, rfind(p, "/") + 1, Len(p))

\* os.path.join(a, b) for two components.
join(a, b) ==
    IF StartsWith(b, <<"/">>) THEN b
    ELSE IF a = <<>> \/ EndsWith(a, <<"/">>) THEN a \o b
    ELSE a \o <<"/">> \o b

\* The characters \w matches among those the model's strings use.
WordChars ==
    {"a", "b", "c", "d", "e", "g", "o", "p", "q", "r", "s", "t", "v", "x", "z",
     "h", "i", "u", "D", "2", "3", "_"}

\* re.search(r'\.\w{3,5}$', s): s ends in a period and 3 to 5 word characters.
file_extension_pattern(s) ==
    \E n \in 3..5 :
        /\ Len(s) >= n + 1
        /\ s[Len(s) - n] = "."
        /\ \A k \in (Len(s) - n + 1)..Len(s) : s[k] \in WordChars

\* -------------------------------------------------------------------- URLs

SchemePrefix == <<"h", "t", "t", "p", ":">>

\* The value urljoin's ValueError stands for.
ValueError == <<"!", "V", "a", "l", "u", "e", "E", "r", "r", "o", "r">>

\* The end of the netloc of a string whose netloc starts at position from.
NetlocEnd(u, from) == FindFirst(u, {"/", "?", "#"}, from) - 1

\* urlsplit raises ValueError("Invalid IPv6 URL") for a netloc with one bracket
\* and not the other.
BadNetloc(u, from) ==
    LET chars == {u[k] : k \in from..NetlocEnd(u, from)}
    IN  ("[" \in chars) # ("]" \in chars)

\* urllib.parse.urljoin(base, url) for an http base, on the forms of url the
\* pages of the model hold: empty, absolute, protocol-relative, root-relative,
\* query-only and relative without dot segments.
urljoin(base, url) ==
    LET origin  == SubSeq(base, 1, NetlocEnd(base, Len(SchemePrefix) + 3))
        noquery == SubSeq(base, 1, FindFirst(base, {"?", "#"}, 1) - 1)
        basedir == SubSeq(noquery, 1, rfind(noquery, "/"))
    IN  IF url = <<>> THEN base
        ELSE IF StartsWith(url, SchemePrefix) THEN url
        ELSE IF StartsWith(url, <<"/", "/">>) THEN
            IF BadNetloc(url, 3) THEN ValueError ELSE SchemePrefix \o url
        ELSE IF StartsWith(url, <<"/">>) THEN origin \o url
        ELSE IF StartsWith(url, <<"?">>) THEN noquery \o url
        ELSE basedir \o url

\* ------------------------------------------------------------- the inputs

\* base_url of the call: http://e/d/p
BaseUrl == <<"h", "t", "t", "p", ":", "/", "/", "e", "/", "d", "/", "p">>

\* file_path as the caller passes it.
CallerDir == <<"D">>

DataSuffix == <<"/", "d", "a", "t", "a">>
ManifestName == <<"/", "s", "u", "b", "p", "a", "g", "e", "s", ".", "t", "x", "t">>

Anchor(h, t) == [href |-> h, type |-> t]

\* The anchors a page may hold. A missing href attribute is the empty href
\* (a.get('href') is None, falsy like '').
AnchorPool ==
    { Anchor(<<"a", ".", "c", "s", "v">>, ""),
      Anchor(<<"b", ".", "t", "x", "t">>, ""),
      Anchor(<<"c", ".", "z", "i", "p">>, ""),
      Anchor(<<"/", "p", "/", "2", "3">>, ""),
      Anchor(<<"/", "r", ".", "d", "o", "c", "x">>, ""),
      Anchor(<<"a", ".", "c", "s", "v", "?", "q">>, ""),
      Anchor(<<"/", "g">>, "zip"),
      Anchor(<<>>, "zip"),
      Anchor(<<"/", "s", "/">>, ""),
      Anchor(<<"/", "/", "[", "/", "a", ".", "c", "s", "v">>, "") }

\* soup.find_all('a') of the pages: every anchor list up to MaxAnchors long.
Pages == UNION {[1..n -> AnchorPool] : n \in 0..MaxAnchors}

\* file_types of the call: None (or an empty tuple) is <<>>.
FileTypeChoices ==
    { <<>>,
      << <<".", "t", "x", "t">>, <<".", "c", "s", "v">> >> }

File(kind, data) == [kind |-> kind, data |-> data]

EmptyFs == [p \in {} |-> File("dir", <<>>)]

\* A destination already populated by an earlier run, for either setting of
\* is_subpage: a.csv and subpages.txt both in CallerDir and in CallerDir/data.
PopulatedFs ==
    LET dirs  == {CallerDir, CallerDir \o DataSuffix}
        files == {d \o <<"/", "a", ".", "c", "s", "v">> : d \in dirs}
                 \cup {d \o ManifestName : d \in dirs}
    IN  [p \in dirs \cup files |->
            IF p \in dirs THEN File("dir", <<>>) ELSE File("old", <<>>)]

\* ------------------------------------------------------------------- state

VARIABLES
    \* download_files: its arguments
    soup, file_types, get_subpages, is_subpage, file_path,
    \* download_files: its locals and position
    hrefs, idx, dl_pc, dl_ret,
    \* the world download_files acts on: the files, the files before the call,
    \* the GETs issued (each with the file it is for), the pauses, the log
    fs, fs0, gets, sleeps, dl_log,
    \* set_up_soup: its arguments and the page behind url
    dynamic, file_types_to_wait, timeout, reachable, page_anchors,
    \* set_up_soup and find_element: their locals and position
    soup_pc, driver, launched, sel, element, waited, soup_ret, soup_log,
    \* find_element: the polls made so far, each with its selector and outcome
    polls

dl_vars == <<soup, file_types, get_subpages, is_subpage, file_path,
             hrefs, idx, dl_pc, dl_ret, fs, fs0, gets, sleeps, dl_log>>

soup_vars == <<dynamic, file_types_to_wait, timeout, reachable, page_anchors,
               soup_pc, driver, launched, sel, element, waited, soup_ret, soup_log,
               polls>>

vars == <<dl_vars, soup_vars>>

\* ------------------------------------------------------------- filesystem

\* A path without its trailing separators.
NormPath(p) == IF Len(p) > 1 /\ EndsWith(p, <<"/">>) THEN SubSeq(p, 1, Len(p) - 1) ELSE p

\* A check that never finds the file.
exists_never(f, p) == FALSE

\* os.path.exists
exists(f, p) == NormPath(p) \in DOMAIN f

\* The directories os.makedirs(p) makes sure of: p and each of its parents.
DirChain(p) == {SubSeq(p, 1, k - 1) : k \in {j \in DOMAIN p : j > 1 /\ p[j] = "/"}} \cup {p}

\* os.makedirs(p, exist_ok=True), when it succeeds.
makedirs(f, p) ==
    [q \in DOMAIN f \cup DirChain(p) |-> IF q \in DOMAIN f THEN f[q] ELSE File("dir", <<>>)]

\* open(p, 'wb' or 'w') followed by the writes: the file holds the new content
\* alone.
WriteFile(f, p, content) ==
    [q \in DOMAIN f \cup {p} |-> IF q = p THEN content ELSE f[q]]

LogEntry(level, msg, arg) == [level |-> level, msg |-> msg, arg |-> arg]

\* -------------------------------------------------------- download_files

\* A filter without the special case of the 'zip' type.
KeepAnchor_NoZipType(a, types) ==
    IF types # <<>>
    THEN a.href # <<>> /\ endswith(a.href, types)
    ELSE a.href # <<>>

\* The anchors download_files keeps (lines 176-180), in document order.
KeepAnchor(a, types) ==
    IF types # <<>>
    THEN a.href # <<>> /\ (endswith(a.href, types) \/ a.type = "zip")
    ELSE a.href # <<>>

RECURSIVE SelectHrefs(_, _)
SelectHrefs(anchors, types) ==
    IF anchors = <<>> THEN <<>>
    ELSE LET rest == SelectHrefs(Tail(anchors), types)
         IN  IF KeepAnchor(Head(anchors), types)
             THEN <<Head(anchors).href>> \o rest
             ELSE rest

\* The directory the files go to (lines 182-184).
DownloadDir(dir, subpage) == IF ~subpage THEN dir \o DataSuffix ELSE dir

\* file_name of one href (line 193).
FileName(dir, href) == join(dir, basename(href))

InitDownload ==
    /\ soup \in Pages
    /\ file_types \in FileTypeChoices
    /\ get_subpages \in BOOLEAN
    /\ is_subpage \in BOOLEAN
    /\ file_path = CallerDir
    /\ hrefs = <<>>
    /\ idx = 0
    /\ dl_pc = "extract"
    /\ dl_ret = [kind |-> "unset", val |-> <<>>]
    /\ fs \in {EmptyFs, PopulatedFs}
    /\ fs0 = fs
    /\ gets = <<>>
    /\ sleeps = 0
    /\ dl_log = <<>>

\* Lines 176-184: the hrefs to attempt and the directory to save them in.
Extract ==
    /\ dl_pc = "extract"
    /\ hrefs' = SelectHrefs(soup, file_types)
    /\ file_path' = DownloadDir(file_path, is_subpage)
    /\ dl_pc' = "makedirs"
    /\ UNCHANGED <<soup, file_types, get_subpages, is_subpage, idx, dl_ret,
                   fs, fs0, gets, sleeps, dl_log>>
    /\ UNCHANGED soup_vars

\* Line 185, outside every try: os.makedirs succeeds, or raises to the caller
\* (a directory that cannot be created; one that exists cannot fail).
MakeDirs ==
    /\ dl_pc = "makedirs"
    /\ \/ /\ fs' = makedirs(fs, file_path)
          /\ idx' = 1
          /\ dl_pc' = "loop"
       \/ /\ ~exists(fs, file_path)
          /\ dl_pc' = "raised"
          /\ UNCHANGED <<fs, idx>>
    /\ UNCHANGED <<soup, file_types, get_subpages, is_subpage, file_path, hrefs,
                   dl_ret, fs0, gets, sleeps, dl_log>>
    /\ UNCHANGED soup_vars

\* Lines 188-198: the next href is resolved, then its file is looked for.
CheckHref ==
    /\ dl_pc = "loop"
    /\ idx <= Len(hrefs)
    /\ LET href      == hrefs[idx]
           file_url  == urljoin(BaseUrl, href)
           file_name == FileName(file_path, href)
       IN  IF file_url = ValueError
           THEN /\ dl_log' = Append(dl_log, LogEntry("error", "Unexpected error", href))
                /\ idx' = idx + 1
                /\ dl_pc' = "loop"
           ELSE IF exists(fs, file_name)
           THEN /\ dl_log' = Append(dl_log, LogEntry("info", "File already exists", file_name))
                /\ idx' = idx + 1
                /\ dl_pc' = "loop"
           ELSE /\ dl_pc' = "get"
                /\ UNCHANGED <<dl_log, idx>>
    /\ UNCHANGED <<soup, file_types, get_subpages, is_subpage, file_path, hrefs,
                   dl_ret, fs, fs0, gets, sleeps>>
    /\ UNCHANGED soup_vars

\* Lines 200-207 and 213-214: the pause, then one GET, which answers, raises a
\* transport error, or answers with an error status (raise_for_status).
Fetch ==
    /\ dl_pc = "get"
    /\ sleeps' = sleeps + 1
    /\ gets' = Append(gets, [url       |-> urljoin(BaseUrl, hrefs[idx]),
                             file_name |-> FileName(file_path, hrefs[idx])])
    /\ \E outcome \in {"ok", "transport", "status"} :
         IF outcome = "ok"
         THEN /\ dl_pc' = "write"
              /\ UNCHANGED <<dl_log, idx>>
         ELSE /\ dl_log' = Append(dl_log,
                     LogEntry("error", "Error downloading file", hrefs[idx]))
              /\ idx' = idx + 1
              /\ dl_pc' = "loop"
    /\ UNCHANGED <<soup, file_types, get_subpages, is_subpage, file_path, hrefs,
                   dl_ret, fs, fs0>>
    /\ UNCHANGED soup_vars

\* Lines 210-212 and 215-216: the body is saved; open may fail (no file), or
\* the write may fail after open created the file.
Save ==
    /\ dl_pc = "write"
    /\ LET href      == hrefs[idx]
           file_name == FileName(file_path, href)
           file_url  == urljoin(BaseUrl, href)
       IN  \E outcome \in {"ok", "open fails", "write fails"} :
             /\ fs' = CASE outcome = "ok" ->
                             WriteFile(fs, file_name, File("body", <<file_url>>))
                        [] outcome = "write fails" ->
                             WriteFile(fs, file_name, File("partial", <<file_url>>))
                        [] OTHER -> fs
             /\ dl_log' = Append(dl_log,
                    IF outcome = "ok"
                    THEN LogEntry("info", "Successfully downloaded file", file_name)
                    ELSE LogEntry("error", "Unexpected error", href))
    /\ idx' = idx + 1
    /\ dl_pc' = "loop"
    /\ UNCHANGED <<soup, file_types, get_subpages, is_subpage, file_path, hrefs,
                   dl_ret, fs0, gets, sleeps>>
    /\ UNCHANGED soup_vars

\* Subpages taken from the hrefs kept for download instead of every anchor.
RECURSIVE SubpageHrefs_Filtered(_)
SubpageHrefs_Filtered(anchors) ==
    IF anchors = <<>> THEN <<>>
    ELSE LET h    == Head(anchors).href
             rest == SubpageHrefs_Filtered(Tail(anchors))
         IN  IF KeepAnchor(Head(anchors), file_types) /\ ~file_extension_pattern(h)
             THEN <<h>> \o rest
             ELSE rest

\* The subpages of the page (lines 219-220): from every anchor, not from hrefs.
RECURSIVE SubpageHrefs(_)
SubpageHrefs(anchors) ==
    IF anchors = <<>> THEN <<>>
    ELSE LET h    == Head(anchors).href
             rest == SubpageHrefs(Tail(anchors))
         IN  IF h # <<>> /\ ~file_extension_pattern(h) THEN <<h>> \o rest ELSE rest

\* Line 222: each subpage resolved against base_url.
ResolveAll(base, hs) == [k \in DOMAIN hs |-> urljoin(base, hs[k])]

\* The manifest's path (line 225): file_path is by now the download directory.
ManifestPath(dir) == dir \o ManifestName

\* Lines 218-229, outside every try.
Finish ==
    /\ dl_pc = "loop"
    /\ idx > Len(hrefs)
    /\ IF get_subpages
       THEN LET subs == ResolveAll(BaseUrl, SubpageHrefs(soup))
            IN  IF \E k \in DOMAIN subs : subs[k] = ValueError
                THEN \* urljoin raises at line 222
                     /\ dl_pc' = "raised"
                     /\ UNCHANGED <<fs, dl_log, dl_ret>>
                ELSE /\ dl_log' = Append(dl_log,
                            LogEntry("info", "Found subpages", <<>>))
                     /\ \E outcome \in {"ok", "open fails", "write fails"} :
                          CASE outcome = "ok" ->
                                 /\ fs' = WriteFile(fs, ManifestPath(file_path),
                                                    File("manifest", subs))
                                 /\ dl_ret' = [kind |-> "list", val |-> subs]
                                 /\ dl_pc' = "done"
                            [] outcome = "write fails" ->
                                 /\ fs' = WriteFile(fs, ManifestPath(file_path),
                                                    File("partial", <<>>))
                                 /\ dl_pc' = "raised"
                                 /\ UNCHANGED dl_ret
                            [] OTHER ->
                                 /\ dl_pc' = "raised"
                                 /\ UNCHANGED <<fs, dl_ret>>
       ELSE /\ dl_ret' = [kind |-> "None", val |-> <<>>]
            /\ dl_pc' = "done"
            /\ UNCHANGED <<fs, dl_log>>
    /\ UNCHANGED <<soup, file_types, get_subpages, is_subpage, file_path, hrefs,
                   idx, fs0, gets, sleeps>>
    /\ UNCHANGED soup_vars

NextDownload ==
    \/ Extract
    \/ MakeDirs
    \/ CheckHref
    \/ Fetch
    \/ Save
    \/ Finish

\* ----------------------------------------------- set_up_soup, find_element

\* Seconds one WebDriverWait of find_element lasts before its TimeoutException.
PollSeconds == 10

\* timeout of the call: the default, and a shorter one.
DefaultTimeout == 30
ShortTimeout == 5

\* file_types_to_wait of the call: empty, the default ('all',), one suffix, two.
WaitChoices == { <<>>, <<"all">>, <<".zip">>, <<".zip", ".pdf">> }

\* What the anchors of a rendered page end in.
SuffixesOnPage == {".zip", ".pdf", ".csv"}

\* Selectors without the wildcard's special case.
selectors_suffix_only(types) == [k \in DOMAIN types |-> types[k]]

\* The selectors of find_element (lines 137-141).
selectors(types) ==
    IF types = <<"all">> THEN <<"a[href]">>
    ELSE [k \in DOMAIN types |-> types[k]]

\* zip(file_types, selectors) of line 142.
zipped(types) ==
    [k \in 1..Min({Len(types), Len(selectors(types))}) |->
        [file_type |-> types[k], selector |-> selectors(types)[k]]]

\* EC.presence_of_element_located for one selector on a page.
Located(selector, anchors) ==
    IF selector = "a[href]" THEN anchors # {} ELSE selector \in anchors

NoElement == [found |-> FALSE, file_type |-> "None"]

InitSoup ==
    /\ dynamic \in BOOLEAN
    /\ file_types_to_wait \in WaitChoices
    /\ timeout \in {DefaultTimeout, ShortTimeout}
    /\ reachable \in BOOLEAN
    /\ page_anchors \in SUBSET SuffixesOnPage
    /\ soup_pc = "start"
    /\ driver = "none"
    /\ launched = 0
    /\ sel = 0
    /\ element = NoElement
    /\ waited = 0
    /\ polls = <<>>
    /\ soup_ret = [kind |-> "unset", anchors |-> {}]
    /\ soup_log = <<>>

\* The except clause of the dynamic branch (lines 118-120).
Raise(msg) ==
    /\ soup_log' = Append(soup_log, LogEntry("error", msg, <<>>))
    /\ soup_ret' = [kind |-> "raised", anchors |-> {}]
    /\ soup_pc' = "done"

\* Lines 83-89 and 93-95: one GET; an unreachable page is a transport error.
StaticGet ==
    /\ soup_pc = "start"
    /\ ~dynamic
    /\ \E outcome \in {"ok", "transport", "status"} :
         /\ outcome = "ok" => reachable
         /\ IF outcome = "ok"
            THEN /\ soup_pc' = "static parse"
                 /\ UNCHANGED <<soup_ret, soup_log>>
            ELSE Raise("Error fetching URL")
    /\ UNCHANGED <<dynamic, file_types_to_wait, timeout, reachable, page_anchors,
                   driver, launched, sel, element, waited, polls>>
    /\ UNCHANGED dl_vars

\* Lines 90-92: the parse; an exception that is no RequestException leaves
\* unlogged.
StaticParse ==
    /\ soup_pc = "static parse"
    /\ \/ /\ soup_log' = Append(soup_log,
                 LogEntry("info", "Successfully fetched and parsed URL", <<>>))
          /\ soup_ret' = [kind |-> "soup", anchors |-> page_anchors]
       \/ /\ soup_ret' = [kind |-> "raised", anchors |-> {}]
          /\ UNCHANGED soup_log
    /\ soup_pc' = "done"
    /\ UNCHANGED <<dynamic, file_types_to_wait, timeout, reachable, page_anchors,
                   driver, launched, sel, element, waited, polls>>
    /\ UNCHANGED dl_vars

\* Lines 99-102: the browser is launched, or webdriver.Chrome raises.
Launch ==
    /\ soup_pc = "start"
    /\ dynamic
    /\ \/ /\ driver' = "open"
          /\ launched' = launched + 1
          /\ soup_pc' = "get"
          /\ UNCHANGED <<soup_ret, soup_log>>
       \/ /\ Raise("Failed to initialize driver")
          /\ UNCHANGED <<driver, launched>>
    /\ UNCHANGED <<dynamic, file_types_to_wait, timeout, reachable, page_anchors,
                   sel, element, waited, polls>>
    /\ UNCHANGED dl_vars

\* A navigation that never raises: an error page is shown instead.
Navigate_ErrorPage ==
    /\ soup_pc = "get"
    /\ soup_pc' = "wait"
    /\ UNCHANGED <<soup_ret, soup_log>>
    /\ UNCHANGED <<dynamic, file_types_to_wait, timeout, reachable, page_anchors,
                   driver, launched, sel, element, waited, polls>>
    /\ UNCHANGED dl_vars

\* Line 103: driver.get; Chrome raises for a page it cannot reach, and may
\* raise for one it can (a crash, a page-load timeout).
Navigate ==
    /\ soup_pc = "get"
    /\ \/ /\ reachable
          /\ soup_pc' = "wait"
          /\ UNCHANGED <<soup_ret, soup_log>>
       \/ Raise("Failed to initialize driver")
    /\ UNCHANGED <<dynamic, file_types_to_wait, timeout, reachable, page_anchors,
                   driver, launched, sel, element, waited, polls>>
    /\ UNCHANGED dl_vars

\* Lines 105 and 111-113: with no wait-set the page is parsed as it is.
SkipWait ==
    /\ soup_pc = "wait"
    /\ file_types_to_wait = <<>>
    /\ soup_log' = Append(soup_log,
           LogEntry("info", "No file types specified - proceed to parse HTML", <<>>))
    /\ soup_pc' = "page_source"
    /\ UNCHANGED <<dynamic, file_types_to_wait, timeout, reachable, page_anchors,
                   driver, launched, sel, element, waited, polls, soup_ret>>
    /\ UNCHANGED dl_vars

\* Lines 105-106 and 137-141: find_element is entered.
EnterFindElement ==
    /\ soup_pc = "wait"
    /\ file_types_to_wait # <<>>
    /\ sel' = 1
    /\ soup_pc' = "poll"
    /\ UNCHANGED <<dynamic, file_types_to_wait, timeout, reachable, page_anchors,
                   driver, launched, element, waited, polls, soup_ret, soup_log>>
    /\ UNCHANGED dl_vars

PollRecord(selector, outcome) == [selector |-> selector, outcome |-> outcome]

\* Lines 142-150: one WebDriverWait(driver, 10) on the next selector. It
\* returns the element when one is located, at once or by the end of the wait;
\* it raises TimeoutException after the wait when none is; any other exception
\* of the driver is swallowed the same way.
Poll ==
    /\ soup_pc = "poll"
    /\ sel <= Len(zipped(file_types_to_wait))
    /\ LET z == zipped(file_types_to_wait)[sel]
       IN  \/ /\ Located(z.selector, page_anchors)
              /\ element' = [found |-> TRUE, file_type |-> z.file_type]
              /\ \E d \in {0, PollSeconds} : waited' = waited + d
              /\ polls' = Append(polls, PollRecord(z.selector, "found"))
              /\ soup_pc' = "waited"
              /\ UNCHANGED sel
           \/ /\ ~Located(z.selector, page_anchors)
              /\ waited' = waited + PollSeconds
              /\ polls' = Append(polls, PollRecord(z.selector, "timeout"))
              /\ sel' = sel + 1
              /\ UNCHANGED <<element, soup_pc>>
           \/ /\ polls' = Append(polls, PollRecord(z.selector, "error"))
              /\ sel' = sel + 1
              /\ UNCHANGED <<element, soup_pc, waited>>
    /\ UNCHANGED <<dynamic, file_types_to_wait, timeout, reachable, page_anchors,
                   driver, launched, soup_ret, soup_log>>
    /\ UNCHANGED dl_vars

\* Line 151: every selector was tried; (None, None).
Exhausted ==
    /\ soup_pc = "poll"
    /\ sel > Len(zipped(file_types_to_wait))
    /\ element' = NoElement
    /\ soup_pc' = "waited"
    /\ UNCHANGED <<dynamic, file_types_to_wait, timeout, reachable, page_anchors,
                   driver, launched, sel, waited, polls, soup_ret, soup_log>>
    /\ UNCHANGED dl_vars

\* A wait whose failure is fatal: a missing element leaves by the except clause.
LogWait_Fatal ==
    /\ soup_pc = "waited"
    /\ IF element.found
       THEN /\ soup_log' = Append(soup_log,
                   LogEntry("info", "Found file - proceed to parse HTML", <<>>))
            /\ soup_pc' = "page_source"
            /\ UNCHANGED soup_ret
       ELSE Raise("No element found containing the specified file types")
    /\ UNCHANGED <<dynamic, file_types_to_wait, timeout, reachable, page_anchors,
                   driver, launched, sel, element, waited, polls>>
    /\ UNCHANGED dl_vars

\* Lines 107-110: the result of find_element is logged, never raised.
LogWait ==
    /\ soup_pc = "waited"
    /\ soup_log' = Append(soup_log,
           IF element.found
           THEN LogEntry("info", "Found file - proceed to parse HTML", <<>>)
           ELSE LogEntry("error", "No element found containing the specified file types", <<>>))
    /\ soup_pc' = "page_source"
    /\ UNCHANGED <<dynamic, file_types_to_wait, timeout, reachable, page_anchors,
                   driver, launched, sel, element, waited, polls, soup_ret>>
    /\ UNCHANGED dl_vars

\* Line 114: driver.page_source is read, or raises.
PageSource ==
    /\ soup_pc = "page_source"
    /\ \/ /\ soup_pc' = "parse"
          /\ UNCHANGED <<soup_ret, soup_log>>
       \/ Raise("Failed to initialize driver")
    /\ UNCHANGED <<dynamic, file_types_to_wait, timeout, reachable, page_anchors,
                   driver, launched, sel, element, waited, polls>>
    /\ UNCHANGED dl_vars

\* Line 115: the parse, or an exception of the parser.
Parse ==
    /\ soup_pc = "parse"
    /\ \/ /\ soup_pc' = "quit"
          /\ UNCHANGED <<soup_ret, soup_log>>
       \/ Raise("Failed to initialize driver")
    /\ UNCHANGED <<dynamic, file_types_to_wait, timeout, reachable, page_anchors,
                   driver, launched, sel, element, waited, polls>>
    /\ UNCHANGED dl_vars

\* Lines 116-117: the only driver.quit() of set_up_soup, then the return. A
\* quit that raises leaves through the except clause, the browser closed or not.
QuitAndReturn ==
    /\ soup_pc = "quit"
    /\ \/ /\ driver' = "quit"
          /\ soup_ret' = [kind |-> "soup", anchors |-> page_anchors]
          /\ soup_pc' = "done"
          /\ UNCHANGED soup_log
       \/ /\ driver' \in {"open", "quit"}
          /\ Raise("Failed to initialize driver")
    /\ UNCHANGED <<dynamic, file_types_to_wait, timeout, reachable, page_anchors,
                   launched, sel, element, waited, polls>>
    /\ UNCHANGED dl_vars

NextSoup ==
    \/ StaticGet
    \/ StaticParse
    \/ Launch
    \/ Navigate
    \/ SkipWait
    \/ EnterFindElement
    \/ Poll
    \/ Exhausted
    \/ LogWait
    \/ PageSource
    \/ Parse
    \/ QuitAndReturn

\* ---------------------------------------------------------- specifications

\* No call of download_files is in progress.
IdleDownload ==
    /\ soup = <<>>
    /\ file_types = <<>>
    /\ get_subpages = FALSE
    /\ is_subpage = FALSE
    /\ file_path = CallerDir
    /\ hrefs = <<>>
    /\ idx = 0
    /\ dl_pc = "idle"
    /\ dl_ret = [kind |-> "unset", val |-> <<>>]
    /\ fs = EmptyFs
    /\ fs0 = EmptyFs
    /\ gets = <<>>
    /\ sleeps = 0
    /\ dl_log = <<>>

\* No call of set_up_soup is in progress.
IdleSoup ==
    /\ dynamic = FALSE
    /\ file_types_to_wait = <<>>
    /\ timeout = DefaultTimeout
    /\ reachable = TRUE
    /\ page_anchors = {}
    /\ soup_pc = "idle"
    /\ driver = "none"
    /\ launched = 0
    /\ sel = 0
    /\ element = NoElement
    /\ waited = 0
    /\ polls = <<>>
    /\ soup_ret = [kind |-> "unset", anchors |-> {}]
    /\ soup_log = <<>>

\* One call of download_files, from any page, arguments and destination.
Init == InitDownload /\ IdleSoup

Next == NextDownload

Spec == Init /\ [][Next]_vars

\* One call of set_up_soup, from any arguments and page.
SoupInit == InitSoup /\ IdleDownload

SoupNext == NextSoup

SpecSoup == SoupInit /\ [][SoupNext]_vars

\* ------------------------------------------------------------------ claims

Last(q) == q[Len(q)]

\* The href download_files has reached, and the path of its file.
ReachedHref == hrefs[idx]
ReachedFile == FileName(file_path, ReachedHref)
AtHref == dl_pc = "loop" /\ idx <= Len(hrefs)

\* The destination of the reached href is on disk.
ReachedOnDisk == NormPath(ReachedFile) \in DOMAIN fs

ExistsEntry == LogEntry("info", "File already exists", ReachedFile)

\* C1 as stated: whenever the href reached has its destination path on disk,
\* the step that handles it issues no GET, does not sleep, leaves every file
\* as it is and logs exactly one entry, the "already exists" one.
C1_SkipLogsOnlyExists ==
    [][ (AtHref /\ ReachedOnDisk) =>
            /\ gets' = gets
            /\ sleeps' = sleeps
            /\ fs' = fs
            /\ dl_log' = Append(dl_log, ExistsEntry) ]_vars

\* C1 amended: whenever the href reached has its destination path on disk, the
\* step that handles it issues no GET, does not sleep, leaves every file as it
\* is and logs exactly one entry: "already exists", or "Unexpected error" when
\* resolving the href against the base URL raises (urljoin comes before the
\* existence check).
C1_SkipNeverFetches ==
    [][ (AtHref /\ ReachedOnDisk) =>
            /\ gets' = gets
            /\ sleeps' = sleeps
            /\ fs' = fs
            /\ dl_log' = Append(dl_log,
                   IF urljoin(BaseUrl, ReachedHref) = ValueError
                   THEN LogEntry("error", "Unexpected error", ReachedHref)
                   ELSE ExistsEntry) ]_vars

\* C1's case: the second run of the a.csv, b.txt scenario.  a.csv was on disk
\* before the call and is still the old file, the only GET was for b.txt, and
\* the log holds "already exists" for a.csv.
C1_Witness ==
    /\ dl_pc = "done"
    /\ Len(hrefs) = 2
    /\ Len(dl_log) = 2
    /\ dl_log[1] = LogEntry("info", "File already exists", FileName(file_path, hrefs[1]))
    /\ FileName(file_path, hrefs[1]) \in DOMAIN fs0
    /\ fs[FileName(file_path, hrefs[1])] = File("old", <<>>)
    /\ dl_log[2].msg = "Successfully downloaded file"
    /\ Len(gets) = 1
    /\ gets[1].file_name = FileName(file_path, hrefs[2])
    /\ sleeps = 1

\* C2 as stated: when a dynamic-mode call of set_up_soup has ended, by a
\* return or by an exception, no browser it launched is still open.
C2_BrowserReleased ==
    (soup_pc = "done" /\ dynamic) => driver # "open"

\* C3 as stated: download_files never raises to its caller.
C3_NeverRaises ==
    dl_pc # "raised"

NoElementEntry ==
    LogEntry("error", "No element found containing the specified file types", <<>>)

\* C4: in dynamic mode with a non-empty wait-set, when find_element returns
\* without an element, set_up_soup logs an error and goes on to read the page
\* source without raising; and a call whose last log entry is that error (no
\* later step raised) has quit the browser and returned the parsed page.
C4_NoMatchIsNotFatal ==
    /\ [][ (soup_pc = "waited" /\ ~element.found) =>
              /\ soup_pc' = "page_source"
              /\ soup_log' = Append(soup_log, NoElementEntry)
              /\ soup_ret' = soup_ret /\ soup_ret.kind = "unset" ]_vars
    /\ [](  (soup_pc = "done" /\ soup_log # <<>> /\ Last(soup_log) = NoElementEntry) =>
              /\ soup_ret = [kind |-> "soup", anchors |-> page_anchors]
              /\ driver = "quit" )

\* C4's case: a wait for .zip then .pdf on a page that holds neither; both
\* were polled, the error was logged and the parsed page was returned.
C4_Witness ==
    /\ soup_pc = "done"
    /\ dynamic
    /\ file_types_to_wait = <<".zip", ".pdf">>
    /\ page_anchors = {".csv"}
    /\ sel = 3
    /\ waited = 2 * PollSeconds
    /\ soup_log = <<NoElementEntry>>
    /\ soup_ret = [kind |-> "soup", anchors |-> {".csv"}]

FailedEntry == LogEntry("error", "Failed to initialize driver", <<>>)

\* C5 as stated: a dynamic-mode call with an empty wait-set on an unreachable
\* page, its browser launched, ends by returning a parsed page.
C5_UnreachableReturnsPage ==
    (soup_pc = "done" /\ dynamic /\ file_types_to_wait = <<>> /\ ~reachable
        /\ launched = 1)
    => soup_ret.kind = "soup"

\* C5 amended: a dynamic-mode call with an empty wait-set on an unreachable
\* page never returns a page: navigation raises, the error is logged and
\* re-raised to the caller.  Such a call returns the parsed page only when the
\* page was reached and no step raised, its log then holding the single entry
\* that no file types were specified.
C5_UnreachableRaises ==
    (soup_pc = "done" /\ dynamic /\ file_types_to_wait = <<>>) =>
        /\ ~reachable =>
              /\ soup_ret.kind = "raised"
              /\ Last(soup_log) = FailedEntry
        /\ soup_ret.kind = "soup" =>
              /\ reachable
              /\ soup_ret.anchors = page_anchors
              /\ soup_log = <<LogEntry("info",
                     "No file types specified - proceed to parse HTML", <<>>)>>

\* C5's case: the browser was launched, the page could not be reached, and the
\* call ended by raising.
C5_Witness ==
    /\ soup_pc = "done"
    /\ dynamic
    /\ file_types_to_wait = <<>>
    /\ ~reachable
    /\ launched = 1
    /\ soup_ret.kind = "raised"
    /\ soup_log = <<FailedEntry>>

\* The hrefs, in document order and with repetitions, of the anchors that
\* pass a test.
HrefsWhere(Test(_)) ==
    LET kept == SelectSeq(soup, Test)
    IN  [k \in DOMAIN kept |-> kept[k].href]

Extracted == dl_pc \notin {"idle", "extract"}

\* C6 as stated: with file_types given, the hrefs attempted are those of the
\* anchors whose href ends in one of the suffixes and of every anchor of type
\* 'zip'; with none given, those of the anchors with a non-empty href.
C6_HrefsAsStated ==
    Extracted =>
        hrefs = IF file_types # <<>>
                THEN HrefsWhere(LAMBDA a :
                         (\E k \in DOMAIN file_types : EndsWith(a.href, file_types[k]))
                         \/ a.type = "zip")
                ELSE HrefsWhere(LAMBDA a : a.href # <<>>)

\* C6 amended: in both cases only anchors with a non-empty href count.  With
\* file_types given, the hrefs attempted are, in document order and without
\* deduplication, those of the anchors with a non-empty href that ends in one
\* of the suffixes or whose type is exactly 'zip'; with none given, those of
\* the anchors with a non-empty href.
C6_HrefsNonEmpty ==
    Extracted =>
        hrefs = IF file_types # <<>>
                THEN HrefsWhere(LAMBDA a :
                         /\ a.href # <<>>
                         /\ \/ \E k \in DOMAIN file_types : EndsWith(a.href, file_types[k])
                            \/ a.type = "zip")
                ELSE HrefsWhere(LAMBDA a : a.href # <<>>)

\* C6's case: suffixes ('.txt', '.csv') on a page that lists c.zip and then a
\* 'zip'-typed anchor without a suffix; only the latter is attempted.
C6_Witness ==
    /\ dl_pc = "done"
    /\ file_types # <<>>
    /\ soup = << Anchor(<<"c", ".", "z", "i", "p">>, ""), Anchor(<<"/", "g">>, "zip") >>
    /\ hrefs = << <<"/", "g">> >>
    /\ Len(gets) = 1

\* The directory the claims name: the caller's, with /data unless is_subpage.
ClaimedDir == IF is_subpage THEN CallerDir ELSE CallerDir \o <<"/", "d", "a", "t", "a">>

\* name is what follows the last "/" of the raw href.
IsRawTail(href, name) ==
    \E k \in 0..Len(href) :
        /\ name = SubSeq(href, k + 1, Len(href))
        /\ \A j \in DOMAIN name : name[j] # "/"
        /\ k > 0 => href[k] = "/"

\* name is the final path segment of href, query string and fragment stripped.
IsStrippedSegment(href, name) ==
    IsRawTail(SubSeq(href, 1, FindFirst(href, {"?", "#"}, 1) - 1), name)

Substrings(q) == {SubSeq(q, i, j) : i \in 1..(Len(q) + 1), j \in 0..Len(q)}

\* A successful save, a fetch and a skip each act on the file called
\* ClaimedDir/name, name being related to the reached href by Names.
SamePathThroughout(Names(_, _)) ==
    /\ (dl_pc = "write" /\ Last(dl_log').msg = "Successfully downloaded file") =>
          \E name \in Substrings(ReachedHref) :
             /\ Names(ReachedHref, name)
             /\ fs' = WriteFile(fs, ClaimedDir \o <<"/">> \o name,
                          File("body", <<urljoin(BaseUrl, ReachedHref)>>))
    /\ (AtHref /\ dl_pc' = "get") =>
          \E name \in Substrings(ReachedHref) :
             /\ Names(ReachedHref, name)
             /\ ClaimedDir \o <<"/">> \o name \notin DOMAIN fs
    /\ (AtHref /\ dl_log' # dl_log /\ Last(dl_log').msg = "File already exists") =>
          \E name \in Substrings(ReachedHref) :
             /\ Names(ReachedHref, name)
             /\ NormPath(ClaimedDir \o <<"/">> \o name) \in DOMAIN fs

\* C7 as stated: every successful fetch is written at <dir>/data/<name> (or
\* <dir>/<name> when is_subpage), name being the final path segment of the href
\* with query string and fragment stripped, and the existence check that
\* decides the skip uses the same path.
C7_NameStripped ==
    [][ SamePathThroughout(IsStrippedSegment) ]_vars

\* C7 amended: name is os.path.basename of the raw href, that is everything
\* after its last "/", query string and fragment included (a.csv?q is saved as
\* a.csv?q); the existence check uses the same path.
C7_NameIsRawBasename ==
    [][ SamePathThroughout(IsRawTail) ]_vars

\* C7's case: a.csv?q was fetched and saved under data/ with its query string
\* in the name, while a.csv on disk stayed the old file.
C7_Witness ==
    /\ dl_pc = "done"
    /\ ~is_subpage
    /\ hrefs = << <<"a", ".", "c", "s", "v", "?", "q">> >>
    /\ fs0 = PopulatedFs
    /\ LET saved == CallerDir \o DataSuffix \o <<"/", "a", ".", "c", "s", "v", "?", "q">>
           old   == CallerDir \o DataSuffix \o <<"/", "a", ".", "c", "s", "v">>
       IN  /\ saved \in DOMAIN fs
           /\ fs[saved].kind = "body"
           /\ fs[old].kind = "old"

\* The subpages as the claim words them: the non-empty hrefs of all anchors,
\* in document order, whose text after the last "/" does not end in a period
\* and 3 to 5 word characters, each resolved against the base URL.
ClaimedSubpages ==
    LET raw == HrefsWhere(LAMBDA a :
                   /\ a.href # <<>>
                   /\ ~\E name \in Substrings(a.href), n \in 3..5 :
                         /\ IsRawTail(a.href, name)
                         /\ Len(name) >= n + 1
                         /\ name[Len(name) - n] = "."
                         /\ \A j \in (Len(name) - n + 1)..Len(name) :
                                name[j] \in WordChars)
    IN  [k \in DOMAIN raw |-> urljoin(BaseUrl, raw[k])]

\* A call that asked for the subpages has returned, the manifest being dir's.
ManifestWrittenIn(dir) ==
    (dl_pc = "done" /\ get_subpages) =>
        /\ dir \o ManifestName \in DOMAIN fs
        /\ fs[dir \o ManifestName] = File("manifest", ClaimedSubpages)
        /\ dl_ret = [kind |-> "list", val |-> ClaimedSubpages]

\* C8 as stated: a call with get_subpages has overwritten subpages.txt in the
\* directory the caller passed with the subpages, one per line, and returned
\* the same list.
C8_ManifestInCallerDir ==
    ManifestWrittenIn(CallerDir)

\* C8 amended: the manifest is subpages.txt of the download directory, which
\* is the passed directory only when is_subpage is true and its data
\* subdirectory otherwise; a call with get_subpages that returns has replaced
\* that file's content with the subpages (tested on the raw href) and returned
\* the same list, and has touched no subpages.txt elsewhere.  When creating
\* the directory, resolving a subpage or writing the manifest raises, the
\* exception reaches the caller and no list is returned; without
\* get_subpages None is returned.
C8_ManifestInDownloadDir ==
    /\ ManifestWrittenIn(ClaimedDir)
    /\ \A dir \in {CallerDir, CallerDir \o DataSuffix} \ {ClaimedDir} :
          dir \o ManifestName \in DOMAIN fs0 =>
              /\ dir \o ManifestName \in DOMAIN fs
              /\ fs[dir \o ManifestName] = fs0[dir \o ManifestName]
    /\ dl_pc = "raised" => dl_ret.kind = "unset"
    /\ (dl_pc = "done" /\ ~get_subpages) => dl_ret.kind = "None"

\* C8's case: /p/23 and /r.docx on the page, an old manifest in both
\* directories; data/subpages.txt now lists http://e/p/23 alone and the
\* caller's own subpages.txt is the old file.
C8_Witness ==
    /\ dl_pc = "done"
    /\ get_subpages
    /\ ~is_subpage
    /\ fs0 = PopulatedFs
    /\ soup = << Anchor(<<"/", "p", "/", "2", "3">>, ""),
                 Anchor(<<"/", "r", ".", "d", "o", "c", "x">>, "") >>
    /\ fs[CallerDir \o DataSuffix \o ManifestName] =
          File("manifest", << <<"h", "t", "t", "p", ":", "/", "/", "e", "/", "p", "/", "2", "3">> >>)
    /\ fs[CallerDir \o ManifestName] = File("old", <<>>)
    /\ dl_ret.kind = "list"
    /\ Len(dl_ret.val) = 1

\* The files that differ from what they were before the call.
Modified == {p \in DOMAIN fs0 : p \notin DOMAIN fs \/ fs[p] # fs0[p]}

\* C9 as stated: no file that existed before the call is ever modified.
C9_NothingOverwritten ==
    Modified = {}

\* C9 amended: the only pre-existing file a call can modify is subpages.txt
\* of the download directory, and only when get_subpages is requested; every
\* other pre-existing file keeps its content.
C9_OnlyManifestOverwritten ==
    /\ Modified \subseteq {ClaimedDir \o ManifestName}
    /\ Modified # {} => get_subpages

\* C9's case: a.csv was on disk and on the page, twice, next to a call that
\* ended; it was never fetched and is the old file.
C9_Witness ==
    /\ dl_pc = "done"
    /\ fs0 = PopulatedFs
    /\ hrefs = << <<"a", ".", "c", "s", "v">>, <<"a", ".", "c", "s", "v">> >>
    /\ fs[ClaimedDir \o <<"/", "a", ".", "c", "s", "v">>] = File("old", <<>>)
    /\ gets = <<>>
    /\ Len(dl_log) = 2

\* C10 as stated: within one call no two GETs are for the same destination
\* file.
C10_OneGetPerFile ==
    \A i, j \in DOMAIN gets : i # j => gets[i].file_name # gets[j].file_name

\* C10 amended: a GET is issued for an href exactly when its destination is
\* not on disk at the moment it is reached.  So a duplicate href is skipped,
\* without a request, once an earlier occurrence has left the file on disk
\* (saved, or cut short by a failed write), and is fetched again when the
\* earlier attempt failed without creating the file; at most one GET per
\* destination file is followed by a save in one call.
C10_OneSavePerFile ==
    /\ [][ /\ gets' # gets =>
                /\ gets' = Append(gets, [url       |-> urljoin(BaseUrl, ReachedHref),
                                          file_name |-> ReachedFile])
                /\ ~ReachedOnDisk
           /\ (AtHref /\ ReachedOnDisk) => (dl_pc' = "loop" /\ idx' = idx + 1)
           /\ (AtHref /\ ~ReachedOnDisk /\ urljoin(BaseUrl, ReachedHref) # ValueError)
                => dl_pc' = "get"
           /\ fs' # fs /\ dl_pc = "write" => ~ReachedOnDisk ]_vars
    /\ [](\A i, j \in DOMAIN dl_log :
            (/\ i # j
             /\ dl_log[i].msg = "Successfully downloaded file"
             /\ dl_log[j].msg = "Successfully downloaded file")
            => dl_log[i].arg # dl_log[j].arg)

\* C10's case: a.csv twice on the page; the first GET failed, the second
\* occurrence was fetched again and saved.
C10_Witness ==
    /\ dl_pc = "done"
    /\ hrefs = << <<"a", ".", "c", "s", "v">>, <<"a", ".", "c", "s", "v">> >>
    /\ Len(gets) = 2
    /\ gets[1].file_name = gets[2].file_name
    /\ dl_log[1].msg = "Error downloading file"
    /\ dl_log[2].msg = "Successfully downloaded file"

\* The selector the wait for file type t asks for: any anchor with an href for
\* the wildcard, an anchor whose href ends in t otherwise.
SelectorFor(t) == IF t = "all" THEN "a[href]" ELSE t

\* C11: find_element is an ordered, short-circuiting search.  The polls made
\* are, one by one, those of the first file types in the order given, each at
\* most once; only the last poll can have found an element, and only where a
\* matching anchor is present; a poll that times out (no matching anchor) or
\* fails moves to the next file type.  While polling no element has been
\* found.  On return, an element is returned exactly when the last poll found
\* one, with that poll's file type, and (None, None) exactly when every file
\* type was polled without a match; the wildcard makes a single poll.
C11_OrderedShortCircuit ==
    LET n == Len(file_types_to_wait)
    IN  /\ Len(polls) <= n
        /\ \A k \in DOMAIN polls :
              /\ polls[k].selector = SelectorFor(file_types_to_wait[k])
              /\ polls[k].outcome = "found" =>
                    (k = Len(polls) /\ Located(polls[k].selector, page_anchors))
              /\ polls[k].outcome = "timeout" => ~Located(polls[k].selector, page_anchors)
        /\ soup_pc = "poll" =>
              /\ Len(polls) = sel - 1
              /\ \A k \in DOMAIN polls : polls[k].outcome # "found"
        /\ soup_pc = "waited" =>
              /\ element.found <=> (polls # <<>> /\ Last(polls).outcome = "found")
              /\ element.found => element.file_type = file_types_to_wait[Len(polls)]
              /\ ~element.found <=>
                    (Len(polls) = n /\ \A k \in DOMAIN polls : polls[k].outcome # "found")
              /\ ~element.found => element = NoElement
        /\ file_types_to_wait = <<"all">> => Len(polls) <= 1

\* C11's case: a wait for .zip then .pdf on a page that holds a .pdf anchor
\* only: .zip timed out, .pdf was found and returned with its file type.
C11_Witness ==
    /\ soup_pc = "waited"
    /\ file_types_to_wait = <<".zip", ".pdf">>
    /\ page_anchors = {".pdf"}
    /\ polls = <<PollRecord(".zip", "timeout"), PollRecord(".pdf", "found")>>
    /\ element = [found |-> TRUE, file_type |-> ".pdf"]

\* C12 as stated: the time spent polling for a matching anchor never exceeds
\* the timeout argument of the call.
C12_PollingWithinTimeout ==
    waited <= timeout

====
